---- MODULE Spec2Model ----
(***************************************************************************)
(* Model of the RACF audit cog (src/racf_audit/racf_audit.py).             *)
(*                                                                         *)
(* Spec      : the cog object and its commands: setup, racfauditset auth,  *)
(*             racfaudit search, racfaudit run, with the roster            *)
(*             fetch-or-fallback (family_member_models) they call, the     *)
(*             cache files under data/racf_audit/clans and settings.json.  *)
(* AuditSpec : the member processing of racfaudit run (lines 577-644):     *)
(*             the per clan report built from a list of member models,     *)
(*             each with the chat member of line 567 attached.  In Spec    *)
(*             the command ends at line 566, where it takes the pair that  *)
(*             family_member_models returns for the member list; AuditSpec *)
(*             starts from the member list itself.                         *)
(*                                                                         *)
(* LinkSpec    : DiscordUsers, the lookup of a chat member by game tag.    *)
(* OverlapSpec : two roster commands suspended in client.get_clans at the  *)
(*               same time.                                                *)
(* RerunSpec   : the member processing of racfaudit run, twice.            *)
(*                                                                         *)
(* Model of the Brawl Stars band data cog (src/bsdata/bsdata.py).          *)
(*                                                                         *)
(* BSSpec    : the commands setbsdata init / add / remove / setkey /       *)
(*             update and bsdata info, and the reload of the cog.          *)
(* LoopSpec  : the loop task that runs update_data.                        *)
(* RaceSpec  : update_data suspended at its await while setbsdata add and  *)
(*             remove run.                                                 *)
(*                                                                         *)
(* Python's None is the empty sequence, a value x that may be None is      *)
(* << x >>.  An exception is the field exc of what an operator returns.    *)
(***************************************************************************)
EXTENDS Integers, Sequences, FiniteSets, TLC

VARIABLES
    config,         \* self.config['clans']: the clans of family_config.yaml
    files,          \* the json files of data/racf_audit/clans, by path
    settings,       \* self.settings, as saved in settings.json
    now,            \* the clock behind dt.datetime.utcnow()
    cmd,            \* the last command: its name, how it ended, what it met
    fmm,            \* the call of family_member_models made by that command
    said,           \* what the command sent with bot.say / send_cmd_help
    last_good,      \* history: per path, the dict of the last API record saved
    server_roles,   \* server.roles of the audited server
    member_models,  \* the member list the audit walks through
    clan_defaults,  \* the dict objects made at line 577, by object id
    clans_out,      \* clans_out: clan name -> id of the dict it refers to
    out,            \* the line based output list, one entry per reported member
    idx,            \* how many members the loop of line 589 has processed
    apc,            \* where the member processing stands
    players,        \* crclan_cog.manager.get_players(server), in table order
    server_members, \* the ids server.get_member finds on the server
    _user_list,     \* DiscordUsers._user_list
    found,          \* the last call of tag_to_member: its tag and its result
    calls,          \* the roster fetches in progress, one per command running
    writer,         \* history: the answer of the API that was saved last
    prev_said,      \* history: what the audit before this one sent
    servers,        \* bsdata: self.settings["servers"], server id -> dict object
    server_dicts,   \* bsdata: the server dict objects, each the value of its "bands"
    band_dicts,     \* bsdata: the band dict objects
    task,           \* bsdata: where the loop task stands
    bs_cmd,         \* bsdata: the last command and what it did
    upd,            \* bsdata: the call of update_data that is under way
    meanwhile       \* bsdata, history: what add / remove did to the tags of the
                    \* server update_data was waiting for, per server and tag

vars == << config, files, settings, now, cmd, fmm, said, last_good,
           server_roles, member_models, clan_defaults, clans_out, out, idx, apc,
           players, server_members, _user_list, found, calls, writer,
           prev_said, servers, server_dicts, band_dicts, task, bs_cmd, upd, meanwhile >>

fetch_vars == << config, files, settings, now, cmd, fmm, said, last_good >>
audit_vars == << server_roles, member_models, clan_defaults, clans_out, out, idx, apc >>
link_vars == << players, server_members, _user_list, found >>
overlap_vars == << calls, writer >>
rerun_vars == << prev_said >>
race_vars == << upd, meanwhile >>
bs_vars == << servers, server_dicts, band_dicts, task, bs_cmd, race_vars >>
ext_vars == << link_vars, overlap_vars, rerun_vars, bs_vars >>

None == << >>
Some(x) == << x >>

(***************************************************************************)
(* Bounds.                                                                 *)
(***************************************************************************)
MaxRoster == 1      \* members per clan in an API response
MaxTime == 1        \* last value of the clock
MaxMembers == 2     \* members in the list given to the audit

(***************************************************************************)
(* family_config.yaml: two clans.  The names the API reports for a clan    *)
(* are those of the configuration.                                         *)
(***************************************************************************)
ClanTags == {"AAA", "BBB"}

ClanCfg(t) ==
    IF t = "AAA" THEN [name |-> "Alpha", tag |-> "AAA", role_name |-> "AlphaRole"]
                 ELSE [name |-> "Bravo", tag |-> "BBB", role_name |-> "BravoRole"]

FamilyConfigs ==
    { << ClanCfg("AAA") >>, << ClanCfg("BBB") >>,
      << ClanCfg("AAA"), ClanCfg("BBB") >>, << ClanCfg("BBB"), ClanCfg("AAA") >> }

\* clan_tags(), and clan_tags = [c.tag for c in clans]
clan_tags(cfg) == [i \in 1..Len(cfg) |-> cfg[i].tag]

(***************************************************************************)
(* The external API.  A response is the list of the clans asked for, in    *)
(* the order asked; a clan's content is its roster, here of n members.     *)
(***************************************************************************)
ClanDict(t, n) ==
    [tag |-> t, name |-> ClanCfg(t).name,
     members |-> [i \in 1..n |-> [tag |-> << t, i >>, name |-> i, role |-> "member"]]]

get_clans(tags, n) == [i \in 1..Len(tags) |-> ClanDict(tags[i], n[tags[i]])]

\* crapipy.models.Clan(data): the record wraps the dict it was built from.
\* src is history: where the dict came from.
Clan(data, src) == [data |-> data, src |-> src]
to_dict(clan_model) == clan_model.data

(***************************************************************************)
(* The cache.                                                              *)
(***************************************************************************)
cache_file_path(clan_tag) == "clans/" \o clan_tag \o ".json"

CachePaths == { cache_file_path(t) : t \in ClanTags }

\* dataIO.save_json / dataIO.load_json on one file
save_json(fs, fp, data) == [fs EXCEPT ![fp] = Some(data)]
load_json(fs, fp) == fs[fp][1]
isfile(fs, fp) == fs[fp] # None

\* a save_to_cache that returns inside its loop: only the first model is saved
save_to_cache_first(fs, clan_models) ==
    IF clan_models = << >> THEN fs
    ELSE save_json(fs, cache_file_path(to_dict(Head(clan_models)).tag),
                   to_dict(Head(clan_models)))

\* a save_to_cache that leaves a file that exists as it is
RECURSIVE save_to_cache_skip_existing(_, _)
save_to_cache_skip_existing(fs, clan_models) ==
    IF clan_models = << >> THEN fs
    ELSE LET clan_model == Head(clan_models)
             fp == cache_file_path(to_dict(clan_model).tag)
         IN  save_to_cache_skip_existing(
                 IF isfile(fs, fp) THEN fs ELSE save_json(fs, fp, to_dict(clan_model)),
                 Tail(clan_models))

RECURSIVE save_to_cache(_, _)
save_to_cache(fs, clan_models) ==
    IF clan_models = << >> THEN fs
    ELSE LET clan_model == Head(clan_models)
         IN  save_to_cache(
                 save_json(fs, cache_file_path(to_dict(clan_model).tag), to_dict(clan_model)),
                 Tail(clan_models))

\* The loop of load_from_cache.  os.path.getmtime (first tag only) and
\* dataIO.load_json both raise FileNotFoundError on a path with no file.
RECURSIVE load_from_cache_loop(_, _, _, _)
load_from_cache_loop(fs, tags, clan_models, fp_timestamp) ==
    IF tags = << >> THEN [exc |-> "none", clan_models |-> clan_models]
    ELSE LET fp == cache_file_path(Head(tags))
         IN  IF fp_timestamp = None /\ ~isfile(fs, fp)
                THEN [exc |-> "FileNotFoundError", clan_models |-> << >>]
             ELSE IF ~isfile(fs, fp)
                THEN [exc |-> "FileNotFoundError", clan_models |-> << >>]
             ELSE load_from_cache_loop(fs, Tail(tags),
                      Append(clan_models, Clan(load_json(fs, fp), "cache")),
                      Some("mtime"))

load_from_cache(fs, tags) == load_from_cache_loop(fs, tags, << >>, None)

family_clan_models_from_cache(fs, cfg) == load_from_cache(fs, clan_tags(cfg))

(***************************************************************************)
(* family_clan_models: one API call for all clans; on success every record *)
(* is saved and the timestamp written, on APIError the error is re-raised. *)
(* api_ok and n are the API's answer, t the time of the call.              *)
(***************************************************************************)
\* a family_clan_models that writes the timestamp before it knows the answer
family_clan_models_stamp_first(fs, st, cfg, api_ok, n, t) ==
    IF api_ok
    THEN LET clan_models == [i \in 1..Len(cfg) |->
                                Clan(get_clans(clan_tags(cfg), n)[i], "api")]
         IN  [exc |-> "none", clan_models |-> clan_models,
              files |-> save_to_cache(fs, clan_models),
              settings |-> [st EXCEPT !.cache_timestamp = Some(t)]]
    ELSE [exc |-> "APIError", clan_models |-> << >>, files |-> fs,
          settings |-> [st EXCEPT !.cache_timestamp = Some(t)]]

family_clan_models(fs, st, cfg, api_ok, n, t) ==
    IF api_ok
    THEN LET clan_models == [i \in 1..Len(cfg) |->
                                Clan(get_clans(clan_tags(cfg), n)[i], "api")]
         IN  [exc |-> "none", clan_models |-> clan_models,
              files |-> save_to_cache(fs, clan_models),
              settings |-> [st EXCEPT !.cache_timestamp = Some(t)]]
    ELSE [exc |-> "APIError", clan_models |-> << >>, files |-> fs, settings |-> st]

\* lines 297-301: the members of every clan model, each with its clan
RECURSIVE members_of(_)
members_of(clan_models) ==
    IF clan_models = << >> THEN << >>
    ELSE LET clan_model == Head(clan_models)
             ms == to_dict(clan_model).members
         IN  [i \in 1..Len(ms) |->
                 [tag |-> ms[i].tag, name |-> ms[i].name, role |-> ms[i].role,
                  clan |-> to_dict(clan_model).tag, src |-> clan_model.src]]
             \o members_of(Tail(clan_models))

\* a family_member_models that forgets is_cache = True in the except branch
family_member_models_no_flag(fs, st, cfg, api_ok, n, t) ==
    LET live == family_clan_models(fs, st, cfg, api_ok, n, t)
        cached == family_clan_models_from_cache(live.files, cfg)
    IN  IF live.exc = "none"
        THEN [exc |-> "none", clan_models |-> live.clan_models,
              members |-> members_of(live.clan_models), is_cache |-> FALSE,
              files |-> live.files, settings |-> live.settings]
        ELSE [exc |-> cached.exc, clan_models |-> cached.clan_models,
              members |-> members_of(cached.clan_models), is_cache |-> FALSE,
              files |-> live.files, settings |-> live.settings]

family_member_models(fs, st, cfg, api_ok, n, t) ==
    LET live == family_clan_models(fs, st, cfg, api_ok, n, t)
        cached == family_clan_models_from_cache(live.files, cfg)
    IN  IF live.exc = "none"
        THEN [exc |-> "none", clan_models |-> live.clan_models,
              members |-> members_of(live.clan_models), is_cache |-> FALSE,
              files |-> live.files, settings |-> live.settings]
        ELSE [exc |-> cached.exc, clan_models |-> cached.clan_models,
              members |-> members_of(cached.clan_models), is_cache |-> TRUE,
              files |-> live.files, settings |-> live.settings]

(***************************************************************************)
(* What a command leaves behind.                                           *)
(***************************************************************************)
NoCall ==
    [called |-> FALSE, returned |-> FALSE, api_ok |-> FALSE, missing |-> {},
     clan_models |-> << >>, members |-> << >>, is_cache |-> FALSE]

\* the record of one call of family_member_models: r is what it returned or
\* raised, missing the clan tags that had no cache file when it was called
CallOf(r, api_ok, fs, cfg) ==
    [called |-> TRUE, returned |-> r.exc = "none", api_ok |-> api_ok,
     missing |-> { cfg[i].tag : i \in { j \in 1..Len(cfg) :
                                         ~isfile(fs, cache_file_path(cfg[j].tag)) } },
     clan_models |-> IF r.exc = "none" THEN r.clan_models ELSE << >>,
     members |-> IF r.exc = "none" THEN r.members ELSE << >>,
     is_cache |-> r.exc = "none" /\ r.is_cache]

Ended(name, exc, api_error) == [name |-> name, exc |-> exc, api_error |-> api_error]

\* history: the dicts of a successful response, by the path of their clan
Remember(lg, cfg, api_ok, n) ==
    IF ~api_ok THEN lg
    ELSE [p \in CachePaths |->
            IF \E i \in 1..Len(cfg) : cache_file_path(cfg[i].tag) = p
            THEN Some(ClanDict(CHOOSE t \in ClanTags : cache_file_path(t) = p,
                               n[CHOOSE t \in ClanTags : cache_file_path(t) = p]))
            ELSE lg[p]]

(***************************************************************************)
(* setup / RACFAudit.__init__: the cog is (re)loaded with the settings     *)
(* file as it is and the family configuration as it then is.               *)
(***************************************************************************)
setup ==
    /\ \E cfg \in FamilyConfigs : config' = cfg
    /\ cmd' = Ended("setup", "none", FALSE)
    /\ fmm' = NoCall
    /\ said' = << >>
    /\ UNCHANGED << files, settings, now, last_good, audit_vars, ext_vars >>

\* racfauditset auth: the token is set and the settings are saved
racfauditset_auth ==
    /\ settings' = [settings EXCEPT !.auth = Some("token")]
    /\ cmd' = Ended("auth", "none", FALSE)
    /\ fmm' = NoCall
    /\ said' = << "Updated settings." >>
    /\ UNCHANGED << config, files, now, last_good, audit_vars, ext_vars >>

(***************************************************************************)
(* racfaudit search.  pargs_name = 0 is the default name '_', a name k > 0 *)
(* matches the members named k; --clan, --min and --max keep their         *)
(* defaults.  api_ok and n are the answer to the API call inside           *)
(* family_clan_models.                                                     *)
(***************************************************************************)
limit == 10

search_results(models, pargs_name) ==
    IF pargs_name # 0
    THEN SelectSeq(models, LAMBDA m : m.name = pargs_name)
    ELSE models

search_output(models, pargs_name) ==
    LET results == search_results(models, pargs_name)
    IN  (IF Len(results) > limit THEN << "Found more than limit results." >> ELSE << >>)
        \o (IF Len(results) > 0 THEN << "results" >> ELSE << "No results found." >>)

\* what the API may answer: nothing when it fails
Answers(api_ok) ==
    IF api_ok THEN [ClanTags -> 0..MaxRoster] ELSE { [t \in ClanTags |-> 0] }

racfaudit_search ==
    /\ UNCHANGED << config, now, audit_vars, ext_vars >>
    /\ \/ \* line 471: the arguments do not parse
          /\ cmd' = Ended("search", "none", FALSE)
          /\ said' = << "help" >>
          /\ fmm' = NoCall
          /\ UNCHANGED << files, settings, last_good >>
       \/ \* line 476: get_clans raises
          /\ cmd' = Ended("search", "APIError", TRUE)
          /\ said' = << >>
          /\ fmm' = NoCall
          /\ UNCHANGED << files, settings, last_good >>
       \/ \* line 476 returns, line 482 onwards
          \E pargs_name \in 0..MaxRoster, api_ok \in BOOLEAN :
            \E n \in Answers(api_ok) :
              LET r == family_member_models(files, settings, config, api_ok, n, now)
              IN  /\ cmd' = Ended("search", r.exc, ~api_ok)
                  /\ fmm' = CallOf(r, api_ok, files, config)
                  /\ files' = r.files
                  /\ settings' = r.settings
                  /\ last_good' = Remember(last_good, config, api_ok, n)
                  /\ said' =
                       IF r.exc # "none" THEN << >>
                       ELSE IF r.is_cache /\ r.settings.cache_timestamp = None
                       THEN << "Cannot reach API and cannot load from cache. Aborting" >>
                       ELSE (IF r.is_cache
                             THEN << "Cannot load from API. Results are from cache" >>
                             ELSE << >>)
                            \o search_output(r.members, pargs_name)

(***************************************************************************)
(* racfaudit run, up to the association of line 566.  What                 *)
(* family_member_models returns is the pair (members, is_cache); the loop  *)
(* of line 566 takes each element of that pair for a member model and      *)
(* reads its tag.                                                          *)
(***************************************************************************)
PyList(v) == [type |-> "list", value |-> v]
PyBool(v) == [type |-> "bool", value |-> v]

\* member_model.tag: only a member model has the attribute
RECURSIVE associate(_)
associate(models) ==
    IF models = << >> THEN "none"
    ELSE IF Head(models).type # "MemberModel" THEN "AttributeError"
    ELSE associate(Tail(models))

racfaudit_run ==
    \E api_ok \in BOOLEAN :
      \E n \in Answers(api_ok) :
        LET r == family_member_models(files, settings, config, api_ok, n, now)
            returned == << PyList(r.members), PyBool(r.is_cache) >>
        IN  /\ cmd' = Ended("run",
                            IF r.exc # "none" THEN r.exc ELSE associate(returned),
                            ~api_ok)
            /\ fmm' = CallOf(r, api_ok, files, config)
            /\ files' = r.files
            /\ settings' = r.settings
            /\ last_good' = Remember(last_good, config, api_ok, n)
            /\ said' = << "config" >>
            /\ UNCHANGED << config, now, audit_vars, ext_vars >>

\* the clock moves on
Tick ==
    /\ now < MaxTime
    /\ now' = now + 1
    /\ UNCHANGED << config, files, settings, cmd, fmm, said, last_good, audit_vars, ext_vars >>

(***************************************************************************)
(* The chat server and the member models of the audit.                     *)
(*                                                                         *)
(* A role object is its name; server.roles holds no two roles of one name. *)
(* A chat member is the set of its roles.  A member model has the fields   *)
(* the audit reads: tag, clan_name, role (in game) and discord_member, the *)
(* chat member line 567 attached to it, or None.                           *)
(***************************************************************************)
ServerRoleChoices ==
    { << "Elder", "Co-Leader", "AlphaRole", "BravoRole" >>,
      << "Elder", "Co-Leader", "AlphaRole" >> }

GameRoles == { "member", "elder", "coLeader" }

RolesOf(roles) == { roles[i] : i \in 1..Len(roles) }

\* discord.utils.get(server.roles, name=role_name): the first role of that
\* name, None when there is none
RECURSIVE utils_get(_, _)
utils_get(roles, role_name) ==
    IF roles = << >> THEN None
    ELSE IF Head(roles) = role_name THEN Some(Head(roles))
    ELSE utils_get(Tail(roles), role_name)

server_role(roles, role_name) == utils_get(roles, role_name)

\* None is in no member's roles
member_has_role(roles, member, role_name) ==
    LET role == utils_get(roles, role_name)
    IN  role # None /\ role[1] \in member.roles

clans(roles, cfg) ==
    [i \in 1..Len(cfg) |->
        [name |-> cfg[i].name, tag |-> cfg[i].tag,
         role |-> server_role(roles, cfg[i].role_name)]]

RECURSIVE clan_name_lookup(_, _)
clan_name_lookup(cs, clan_name) ==
    IF cs = << >> THEN None
    ELSE IF Head(cs).name = clan_name THEN Head(cs).role
    ELSE clan_name_lookup(Tail(cs), clan_name)

clan_name_to_role(roles, cfg, clan_name) == clan_name_lookup(clans(roles, cfg), clan_name)

\* MemberAudit
has_discord(m) == m.discord_member # None
\* an api_is_elder that takes every rank from elder upwards for elder
api_is_elder_or_above(m) == m.role \in { "elder", "coLeader" }
api_is_elder(m) == m.role = "elder"
api_is_coleader(m) == m.role = "coLeader"
discord_role_elder(roles, m) == member_has_role(roles, m.discord_member[1], "Elder")
discord_role_coleader(roles, m) == member_has_role(roles, m.discord_member[1], "Co-Leader")

\* a discord_clan_roles without its filter: every clan role of the family
discord_clan_roles_unfiltered(roles, cfg, m) ==
    IF m.discord_member = None THEN << >>
    ELSE [i \in 1..Len(clans(roles, cfg)) |-> clans(roles, cfg)[i].role]

discord_clan_roles(roles, cfg, m) ==
    IF m.discord_member = None THEN << >>
    ELSE LET cs == clans(roles, cfg)
             held == SelectSeq(cs, LAMBDA c :
                         c.role # None /\ c.role[1] \in m.discord_member[1].roles)
         IN  [i \in 1..Len(held) |-> held[i].role]

InSeq(x, s) == \E i \in 1..Len(s) : s[i] = x

(***************************************************************************)
(* The member processing of racfaudit run.                                 *)
(***************************************************************************)
Fields == { "elder_promotion_req", "coleader_promotion_req", "no_discord", "no_clan_role" }

\* a clan_defaults made once and kept from one audit to the next
kept_clan_defaults ==
    IF clan_defaults = << >> THEN [f \in Fields |-> << >>] ELSE clan_defaults[1]

\* line 577: one dict of four empty lists
new_clan_defaults == [f \in Fields |-> << >>]

\* line 583: OrderedDict([(c.name, clan_defaults) for c in clans]): every
\* clan name is bound to the object made at line 577, here object 1
new_clans_out(cs) == [i \in 1..Len(cs) |-> [name |-> cs[i].name, ref |-> 1]]

RefOf(co, clan_name) ==
    (CHOOSE i \in 1..Len(co) : co[i].name = clan_name /\
        \A j \in 1..Len(co) : co[j].name = clan_name => j <= i)

\* an update_clan that inserts at the head of the list
update_clan_insert(heap, co, clan_name, field, member_model) ==
    LET ref == co[RefOf(co, clan_name)].ref
    IN  [heap EXCEPT ![ref][field] = << member_model.tag >> \o @]

\* update_clan: clans_out[clan_name][field].append(member_model)
update_clan(heap, co, clan_name, field, member_model) ==
    LET ref == co[RefOf(co, clan_name)].ref
    IN  [heap EXCEPT ![ref][field] = Append(@, member_model.tag)]

\* an audit_member whose else hangs on the inner if of line 604
audit_member_inner_else(roles, cfg, m) ==
    LET clan_role == clan_name_to_role(roles, cfg, m.clan_name)
        elder == IF ~api_is_elder(m) /\ discord_role_elder(roles, m)
                 THEN << "elder_promotion_req" >> ELSE << >>
        coleader == IF ~api_is_coleader(m) /\ discord_role_coleader(roles, m)
                    THEN << "coleader_promotion_req" >> ELSE << >>
        norole == IF clan_role = None THEN << "no_discord" >>
                  ELSE IF ~InSeq(clan_role, discord_clan_roles(roles, cfg, m))
                  THEN << "no_clan_role" >> ELSE << >>
    IN  IF has_discord(m) THEN elder \o coleader \o norole
        ELSE << >>

\* an audit_member that chains its three checks with elif
audit_member_elif(roles, cfg, m) ==
    LET clan_role == clan_name_to_role(roles, cfg, m.clan_name)
    IN  IF ~has_discord(m) THEN << "no_discord" >>
        ELSE IF ~api_is_elder(m) /\ discord_role_elder(roles, m)
        THEN << "elder_promotion_req" >>
        ELSE IF ~api_is_coleader(m) /\ discord_role_coleader(roles, m)
        THEN << "coleader_promotion_req" >>
        ELSE IF clan_role # None /\ ~InSeq(clan_role, discord_clan_roles(roles, cfg, m))
        THEN << "no_clan_role" >>
        ELSE << >>

\* lines 593-610 for one member: the updates of the report, in order, and
\* the lines of m_out
audit_member(roles, cfg, m) ==
    LET clan_role == clan_name_to_role(roles, cfg, m.clan_name)
        elder == IF ~api_is_elder(m) /\ discord_role_elder(roles, m)
                 THEN << "elder_promotion_req" >> ELSE << >>
        coleader == IF ~api_is_coleader(m) /\ discord_role_coleader(roles, m)
                    THEN << "coleader_promotion_req" >> ELSE << >>
        norole == IF clan_role # None /\ ~InSeq(clan_role, discord_clan_roles(roles, cfg, m))
                  THEN << "no_clan_role" >> ELSE << >>
    IN  IF has_discord(m) THEN elder \o coleader \o norole
        ELSE << "no_discord" >>

RECURSIVE update_all(_, _, _, _)
update_all(heap, co, fields, m) ==
    IF fields = << >> THEN heap
    ELSE update_all(update_clan(heap, co, m.clan_name, Head(fields), m), co, Tail(fields), m)

\* lines 554-583: the report as it is before the first member
AuditBegin ==
    /\ apc = "start"
    /\ clan_defaults' = << new_clan_defaults >>
    /\ clans_out' = new_clans_out(clans(server_roles, config))
    /\ out' = << >>
    /\ idx' = 0
    /\ apc' = "loop"
    /\ UNCHANGED << fetch_vars, server_roles, member_models, ext_vars >>

\* lines 589-619: one turn of the loop
AuditMember ==
    /\ apc = "loop"
    /\ idx < Len(member_models)
    /\ LET m == member_models[idx + 1]
           m_out == audit_member(server_roles, config, m)
       IN  /\ clan_defaults' = update_all(clan_defaults, clans_out, m_out, m)
           /\ out' = IF Len(m_out) > 0 THEN Append(out, [ign |-> m.tag, status |-> m_out])
                     ELSE out
    /\ idx' = idx + 1
    /\ UNCHANGED << fetch_vars, server_roles, member_models, clans_out, apc, ext_vars >>

\* lines 626-639: the clan based output, one block per entry of clans_out
clan_based_output(heap, co) ==
    [i \in 1..Len(co) |->
        [clan |-> co[i].name,
         elder_promotion_req |-> heap[co[i].ref]["elder_promotion_req"],
         no_discord |-> heap[co[i].ref]["no_discord"],
         no_clan_role |-> heap[co[i].ref]["no_clan_role"]]]

\* lines 621-644: the two outputs are sent
AuditOutput ==
    /\ apc = "loop"
    /\ idx = Len(member_models)
    /\ apc' = "done"
    /\ said' = << out, clan_based_output(clan_defaults, clans_out) >>
    /\ UNCHANGED << config, files, settings, now, cmd, fmm, last_good,
                    server_roles, member_models, clan_defaults, clans_out, out, idx,
                    ext_vars >>

(***************************************************************************)
(* DiscordUsers: the table of the crclan cog that links chat members to    *)
(* game tags, and the lookup of a chat member by tag.  The table is a dict *)
(* keyed by member id: its items are the pairs (member_id, player_tag) in  *)
(* table order, no member id twice.  A chat user is the record of its id.  *)
(***************************************************************************)
MaxPlayers == 2     \* entries of the table

MemberIds == { "m1", "m2", "m3" }
PlayerTags == { "P1", "P2" }

DiscordUser(user, tag) == [user |-> user, tag |-> tag]

\* server.get_member(member_id): the user, or None if it is not on the server
get_member(members, member_id) ==
    IF member_id \in members THEN Some([id |-> member_id]) ELSE None

\* lines 127-134: the loop over players.items()
RECURSIVE user_list_loop(_, _, _)
user_list_loop(items, members, o) ==
    IF items = << >> THEN o
    ELSE LET member_id == Head(items)[1]
             player_tag == Head(items)[2]
             user == get_member(members, member_id)
         IN  user_list_loop(Tail(items), members,
                 IF user # None THEN Append(o, DiscordUser(user[1], player_tag))
                 ELSE o)

\* the property user_list: computed on first use, then kept
user_list(kept, items, members) ==
    IF kept = None THEN user_list_loop(items, members, << >>) ELSE kept[1]

\* a tag_to_member that goes on to the last user with the tag
RECURSIVE tag_to_member_last(_, _)
tag_to_member_last(ul, tag) ==
    IF ul = << >> THEN None
    ELSE LET later == tag_to_member_last(Tail(ul), tag)
         IN  IF later # None THEN later
             ELSE IF Head(ul).tag = tag THEN Some(Head(ul).user)
             ELSE None

RECURSIVE tag_to_member(_, _)
tag_to_member(ul, tag) ==
    IF ul = << >> THEN None
    ELSE IF Head(ul).tag = tag THEN Some(Head(ul).user)
    ELSE tag_to_member(Tail(ul), tag)

NotLookedUp == [called |-> FALSE, tag |-> "", user |-> None]

\* lines 113-117: a new DiscordUsers object
DiscordUsers ==
    /\ _user_list' = None
    /\ UNCHANGED << fetch_vars, audit_vars, players, server_members, found,
                    overlap_vars, rerun_vars, bs_vars >>

\* discord_users.tag_to_member(tag), as called at line 567
TagToMember ==
    \E tag \in PlayerTags :
        LET ul == user_list(_user_list, players, server_members)
        IN  /\ _user_list' = Some(ul)
            /\ found' = [called |-> TRUE, tag |-> tag, user |-> tag_to_member(ul, tag)]
            /\ UNCHANGED << fetch_vars, audit_vars, players, server_members,
                            overlap_vars, rerun_vars, bs_vars >>

(***************************************************************************)
(* Two roster commands at once.  A command is suspended at the await of    *)
(* line 274 until the API answers; what follows the answer (lines 276-285  *)
(* and 289-302: save_to_cache, the timestamp, or the read of the cache)    *)
(* has no await and runs in one piece on the event loop.  dataIO.save_json *)
(* replaces a file in one step.                                            *)
(***************************************************************************)
Commands == { "c1", "c2" }

\* wrote is history: the answer of the API that the fetch saved
NoFetch == [pc |-> "idle", api_ok |-> FALSE, wrote |-> None, overlapped |-> FALSE]

\* line 274: client.get_clans is awaited
fetch_request(c) ==
    /\ calls[c].pc = "idle"
    /\ calls' = [d \in Commands |->
                   IF d = c
                   THEN [calls[c] EXCEPT !.pc = "awaiting",
                            !.overlapped = \E e \in Commands \ { c } :
                                              calls[e].pc = "awaiting"]
                   ELSE [calls[d] EXCEPT !.overlapped =
                            @ \/ calls[d].pc = "awaiting"]]
    /\ UNCHANGED << fetch_vars, audit_vars, link_vars, writer, rerun_vars, bs_vars >>

\* the API answers: the rest of family_member_models
fetch_response(c) ==
    /\ calls[c].pc = "awaiting"
    /\ \E api_ok \in BOOLEAN :
         \E n \in Answers(api_ok) :
           LET r == family_member_models(files, settings, config, api_ok, n, now)
           IN  /\ files' = r.files
               /\ settings' = r.settings
               /\ last_good' = Remember(last_good, config, api_ok, n)
               /\ calls' = [calls EXCEPT ![c] =
                     [pc |-> "done", api_ok |-> api_ok,
                      wrote |-> IF api_ok THEN Some(n) ELSE None,
                      overlapped |-> @.overlapped]]
               /\ writer' = IF api_ok THEN Some(n) ELSE writer
    /\ UNCHANGED << config, now, cmd, fmm, said, audit_vars, link_vars, rerun_vars,
                    bs_vars >>

\* the command is over
fetch_return(c) ==
    /\ calls[c].pc = "done"
    /\ calls' = [calls EXCEPT ![c] = NoFetch]
    /\ UNCHANGED << fetch_vars, audit_vars, link_vars, writer, rerun_vars, bs_vars >>

(***************************************************************************)
(* racfaudit run a second time on the same server and the same members.    *)
(***************************************************************************)
AuditAgain ==
    /\ apc = "done"
    /\ prev_said = None
    /\ prev_said' = Some(said)
    /\ apc' = "start"
    /\ UNCHANGED << fetch_vars, server_roles, member_models, clan_defaults, clans_out,
                    out, idx, link_vars, overlap_vars, bs_vars >>

(***************************************************************************)
(* The Brawl Stars band data cog (src/bsdata/bsdata.py).                   *)
(*                                                                         *)
(* Python dicts are objects: a name or a dict entry holds a reference, and *)
(* an assignment or dict.copy() copies references, not dicts.  The server  *)
(* dicts and the band dicts are kept by object id.  A server dict has the  *)
(* one entry "bands", so the object is the value of that entry: a dict     *)
(* from clan tag to the id of a band dict.  A "bands" dict is changed only *)
(* through a copy that is then stored back, so it is kept by value.        *)
(* SERVER_DEFAULTS and BAND_DEFAULTS are the two dict objects the module   *)
(* makes when it is loaded; the other objects are those dataIO.load_json   *)
(* makes from settings.json, one per server and one per band of a server.  *)
(* Every command saves settings.json after what it changes, so the file    *)
(* always has the content of self.settings.                                *)
(***************************************************************************)
MaxTags == 2        \* clan tags given to setbsdata add / remove

ServerIds == { "s1", "s2" }
BandTags == { "LQQ", "82R" }
Keys == { "main" }

\* the clan tag arguments a user may type
ClantagArgs == { "#LQQ", "82R" }

\* lines 380-381: clantag[1:] if clantag.startswith('#')
strip_hash(clantag) == IF clantag = "#LQQ" THEN "LQQ" ELSE clantag

\* object ids
SERVER_DEFAULTS == "SERVER_DEFAULTS"
BAND_DEFAULTS == << "BAND_DEFAULTS", "" >>
ServerObjects == { SERVER_DEFAULTS } \cup ServerIds
BandObjects == { BAND_DEFAULTS } \cup (ServerIds \X BandTags)

\* the dicts of lines 64-72 as the module makes them.  api tells whether the
\* keys of an API response (description, score, ...) are in the dict.
EmptyDict == [x \in {} |-> BAND_DEFAULTS]
NewBand == [name |-> None, tag |-> "", key |-> None, api |-> FALSE]

DictSet(d, k, v) == [x \in DOMAIN d \cup { k } |-> IF x = k THEN v ELSE d[x]]
DictPop(d, k) == [x \in DOMAIN d \ { k } |-> d[x]]

\* iteration order of the two dicts
ServerOrder == << "s1", "s2" >>
TagOrder == << "LQQ", "82R" >>
ItemsOf(d, order) == SelectSeq(order, LAMBDA k : k \in DOMAIN d)

\* The memory of the cog is a record m of servers, server_dicts, band_dicts.
\* Objects that nothing refers to any more are as new.
Collect(m) ==
    LET live == { SERVER_DEFAULTS } \cup { m.servers[sid] : sid \in DOMAIN m.servers }
        sd == [o \in ServerObjects |-> IF o \in live THEN m.server_dicts[o] ELSE EmptyDict]
        used == { BAND_DEFAULTS } \cup
                UNION { { sd[o][t] : t \in DOMAIN sd[o] } : o \in ServerObjects }
    IN  [servers |-> m.servers,
         server_dicts |-> sd,
         band_dicts |-> [b \in BandObjects |->
                            IF b \in used THEN m.band_dicts[b] ELSE NewBand]]

\* the band API: the data of a band, or None when the answer is not json
\* (lines 322-331).  The keys of the data are those the API sends; the tag
\* is not one of them (lines 121-139).
BandName(tag) == "Band " \o tag
get_band_data(tag, ok) == IF ok THEN Some([name |-> Some(BandName(tag))]) ELSE None

\* dict.update(data): TypeError when data is None
dict_update(band, data) == [band EXCEPT !.name = data[1].name, !.api = TRUE]

\* lines 266-270
check_server_settings(m, server_id) ==
    IF server_id \notin DOMAIN m.servers
    THEN [m EXCEPT !.servers = DictSet(@, server_id, SERVER_DEFAULTS)]
    ELSE m

\* lines 354-357: the cog after check_server_settings and a copy of "bands"
get_bands_settings(m, server_id) ==
    LET m1 == check_server_settings(m, server_id)
    IN  [m |-> m1, bands |-> m1.server_dicts[m1.servers[server_id]]]

\* lines 359-363
set_bands_settings(m, server_id, data) ==
    [m EXCEPT !.server_dicts[m.servers[server_id]] = data]

\* lines 379-389: the loop of setbsdata add
RECURSIVE add_loop(_, _, _)
add_loop(m, server_id, clantags) ==
    IF clantags = << >> THEN m
    ELSE LET clantag == strip_hash(Head(clantags))
             g == get_bands_settings(m, server_id)
             bands == IF clantag \notin DOMAIN g.bands
                      THEN DictSet(g.bands, clantag, BAND_DEFAULTS)
                      ELSE g.bands
         IN  add_loop(set_bands_settings(g.m, server_id, bands), server_id, Tail(clantags))

\* lines 407-417: the loop of setbsdata remove; it returns at the first
\* clan tag that bands.pop does not find
RECURSIVE remove_loop(_, _, _, _)
remove_loop(m, server_id, bands, clantags) ==
    IF clantags = << >> THEN m
    ELSE LET clantag == strip_hash(Head(clantags))
         IN  IF clantag \notin DOMAIN bands THEN m
             ELSE remove_loop(set_bands_settings(m, server_id, DictPop(bands, clantag)),
                              server_id, DictPop(bands, clantag), Tail(clantags))

\* lines 338-344: the tags of one server.  The result is the cog, the tags
\* asked from the API and the exception raised, if any.
RECURSIVE update_tags(_, _, _, _, _, _, _)
update_tags(m, server_id, bands, tags, band_tag, ok, fetched) ==
    IF tags = << >> THEN [m |-> m, fetched |-> fetched, exc |-> "none"]
    ELSE LET tag == Head(tags)
             do_update == band_tag = None \/ band_tag = Some(tag)
             data == get_band_data(tag, ok)
         IN  IF ~do_update
             THEN update_tags(m, server_id, bands, Tail(tags), band_tag, ok, fetched)
             ELSE IF data = None
             THEN [m |-> m, fetched |-> fetched \cup { tag }, exc |-> "TypeError"]
             ELSE update_tags(
                    set_bands_settings(
                        [m EXCEPT !.band_dicts[bands[tag]] = dict_update(@, data)],
                        server_id, bands),
                    server_id, bands, Tail(tags), band_tag, ok, fetched \cup { tag })

\* lines 335-337: the servers
RECURSIVE update_servers(_, _, _, _, _)
update_servers(m, server_ids, band_tag, ok, fetched) ==
    IF server_ids = << >> THEN [m |-> m, fetched |-> fetched, exc |-> "none"]
    ELSE LET g == get_bands_settings(m, Head(server_ids))
             r == update_tags(g.m, Head(server_ids), g.bands,
                              ItemsOf(g.bands, TagOrder), band_tag, ok, fetched)
         IN  IF r.exc # "none" THEN r
             ELSE update_servers(r.m, Tail(server_ids), band_tag, ok, r.fetched)

\* update_data(band_tag): band_tag is None or a tag
update_data(m, band_tag, ok) ==
    update_servers(m, ItemsOf(m.servers, ServerOrder), band_tag, ok, {})

\* lines 462-476: BSBandData(**band) has the attributes that are keys of the
\* dict; data.description is read first and is a key of API data only
embed_bsdata_info(band) ==
    IF ~band.api THEN [exc |-> "AttributeError", em |-> None]
    ELSE [exc |-> "none", em |-> Some([title |-> band.name, tag |-> band.tag])]

\* lines 450-452: the loop of bsdata info over the copy of "bands"
RECURSIVE info_loop(_, _, _, _, _)
info_loop(m, bands, tags, ok, fetched) ==
    IF tags = << >> THEN [m |-> m, fetched |-> fetched, exc |-> "none"]
    ELSE LET band == m.band_dicts[bands[Head(tags)]]
             r == update_data(m, Some(band.tag), ok)
         IN  IF band.name # None THEN info_loop(m, bands, Tail(tags), ok, fetched)
             ELSE IF r.exc # "none"
             THEN [m |-> r.m, fetched |-> fetched \cup r.fetched, exc |-> r.exc]
             ELSE info_loop(r.m, bands, Tail(tags), ok, fetched \cup r.fetched)

\* line 453: the embeds, in the order of the dict
RECURSIVE embeds_of(_, _, _)
embeds_of(m, bands, tags) ==
    IF tags = << >> THEN [exc |-> "none", embeds |-> << >>]
    ELSE LET e == embed_bsdata_info(m.band_dicts[bands[Head(tags)]])
             rest == embeds_of(m, bands, Tail(tags))
         IN  IF e.exc # "none" THEN [exc |-> e.exc, embeds |-> << >>]
             ELSE IF rest.exc # "none" THEN rest
             ELSE [exc |-> "none", embeds |-> << e.em[1] >> \o rest.embeds]

\* line 454: sorted(embeds, key=lambda x: x.title); "Band 82R" < "Band LQQ"
sorted_by_title(embeds) ==
    SelectSeq(embeds, LAMBDA e : e.title = Some(BandName("82R")))
        \o SelectSeq(embeds, LAMBDA e : e.title # Some(BandName("82R")))

\* bot.get_cog(name): setup adds the cog under the name of its class
get_cog(name) == IF name = "BSData" THEN Some("self") ELSE None

Mem == [servers |-> servers, server_dicts |-> server_dicts, band_dicts |-> band_dicts]

SetMem(m) ==
    /\ servers' = Collect(m).servers
    /\ server_dicts' = Collect(m).server_dicts
    /\ band_dicts' = Collect(m).band_dicts

\* the tags of a server whose band has no name yet
Unnamed(m, server_id) ==
    IF server_id \notin DOMAIN m.servers THEN {}
    ELSE { t \in DOMAIN m.server_dicts[m.servers[server_id]] :
             m.band_dicts[m.server_dicts[m.servers[server_id]][t]].name = None }

BsCmd(name, server_id, clantags, tag, exc, fetched, unnamed, embeds) ==
    [name |-> name, server |-> server_id, clantags |-> clantags, tag |-> tag,
     exc |-> exc, fetched |-> fetched, unnamed |-> unnamed, embeds |-> embeds]

NoBsCmd == BsCmd("setup", "", << >>, "", "none", {}, {}, << >>)

other_vars == << fetch_vars, audit_vars, link_vars, overlap_vars, rerun_vars >>

\* lines 632-637 and 249-253: the cog is loaded: the module makes its two
\* default dicts, the loop task is created, settings.json is read
\* update_data is suspended at the await of line 342, once for every tag it
\* asks the API for, and the commands run while it waits.  pc tells where
\* the call stands; bands is its copy of line 337, size the length of
\* self.settings["servers"] when the loop of line 335 began.
NoUpdate ==
    [pc |-> "idle", exc |-> "none", size |-> 0, sids |-> << >>, server_id |-> "",
     bands |-> EmptyDict, tags |-> << >>, tag |-> ""]

NoNotes == [o \in ServerIds |-> [t \in BandTags |-> "none"]]

TrackedIn(m, server_id) ==
    IF server_id \in DOMAIN m.servers THEN DOMAIN m.server_dicts[m.servers[server_id]]
    ELSE {}

\* history: a command on server_id has left the cog as m.  A tag that it
\* added to or removed from the server update_data is waiting for is noted;
\* any other change of a tag of a server takes the note of that tag away.
Noted(server_id, m) ==
    [o \in ServerIds |->
        [t \in BandTags |->
            IF (t \in TrackedIn(Mem, o)) = (t \in TrackedIn(m, o)) THEN meanwhile[o][t]
            ELSE IF upd.pc = "awaiting" /\ upd.server_id = server_id /\ o = server_id
            THEN (IF t \in TrackedIn(m, o) THEN "added" ELSE "removed")
            ELSE "none"]]

bsdata_setup ==
    /\ SetMem([servers |-> [sid \in DOMAIN servers |-> sid],
               server_dicts |->
                   [o \in ServerObjects |->
                       IF o \in DOMAIN servers
                       THEN [t \in DOMAIN server_dicts[servers[o]] |-> << o, t >>]
                       ELSE EmptyDict],
               band_dicts |->
                   [b \in BandObjects |->
                       IF b[1] \in DOMAIN servers /\ b[2] \in DOMAIN server_dicts[servers[b[1]]]
                       THEN band_dicts[server_dicts[servers[b[1]]][b[2]]]
                       ELSE NewBand]])
    /\ task' = "pending"
    /\ bs_cmd' = NoBsCmd
    /\ UNCHANGED << other_vars, race_vars >>

\* lines 259-261: the loop task runs update_data and goes to sleep
loop_task_update ==
    /\ task = "pending"
    /\ \E ok \in BOOLEAN :
         LET r == update_data(Mem, None, ok)
         IN  /\ SetMem(r.m)
             /\ task' = IF r.exc = "none" THEN "sleeping" ELSE "ended"
             /\ bs_cmd' = BsCmd("loop_task", "", << >>, "", r.exc, r.fetched, {}, << >>)
    /\ UNCHANGED << other_vars, race_vars >>

\* lines 262-264: after the sleep
loop_task_wake ==
    /\ task = "sleeping"
    /\ task' = IF Some("self") = get_cog("BSBand") THEN "pending" ELSE "ended"
    /\ UNCHANGED << servers, server_dicts, band_dicts, bs_cmd, other_vars, race_vars >>

\* lines 282-288
setbsdata_init ==
    \E server_id \in ServerIds :
        /\ SetMem([Mem EXCEPT !.servers = DictSet(@, server_id, SERVER_DEFAULTS)])
        /\ bs_cmd' = BsCmd("init", server_id, << >>, "", "none", {}, {}, << >>)
        /\ UNCHANGED << task, other_vars, race_vars >>

\* lines 347-352
setbsdata_update ==
    \E ok \in BOOLEAN :
        LET r == update_data(Mem, None, ok)
        IN  /\ SetMem(r.m)
            /\ bs_cmd' = BsCmd("update", "", << >>, "", r.exc, r.fetched, {}, << >>)
            /\ UNCHANGED << task, other_vars, race_vars >>

\* lines 365-389
setbsdata_add ==
    \E server_id \in ServerIds :
      \E k \in 0..MaxTags :
        \E clantags \in [1..k -> ClantagArgs] :
            LET m == IF clantags = << >> THEN Mem
                     ELSE add_loop(check_server_settings(Mem, server_id),
                                   server_id, clantags)
            IN  /\ SetMem(m)
                /\ bs_cmd' = BsCmd("add", server_id, << >>, "", "none", {}, {}, << >>)
                /\ meanwhile' = Noted(server_id, m)
                /\ UNCHANGED << task, other_vars, upd >>

\* lines 393-417
setbsdata_remove ==
    \E server_id \in ServerIds :
      \E k \in 0..MaxTags :
        \E clantags \in [1..k -> ClantagArgs] :
            LET g == get_bands_settings(Mem, server_id)
                m == IF clantags = << >> THEN Mem
                     ELSE remove_loop(g.m, server_id, g.bands, clantags)
            IN  /\ SetMem(m)
                /\ bs_cmd' = BsCmd("remove", server_id, clantags, "", "none", {}, {}, << >>)
                /\ meanwhile' = Noted(server_id, m)
                /\ UNCHANGED << task, other_vars, upd >>

\* lines 419-436
setbsdata_setkey ==
    \E server_id \in ServerIds, tag \in BandTags, key \in Keys :
        LET g == get_bands_settings(Mem, server_id)
        IN  /\ SetMem(IF tag \notin DOMAIN g.bands THEN g.m
                      ELSE set_bands_settings(
                              [g.m EXCEPT !.band_dicts[g.bands[tag]].key = Some(key)],
                              server_id, g.bands))
            /\ bs_cmd' = BsCmd("setkey", server_id, << >>, tag, "none", {}, {}, << >>)
            /\ UNCHANGED << task, other_vars, race_vars >>

\* lines 444-460
bsdata_info ==
    \E server_id \in ServerIds :
      \E ok \in BOOLEAN :
        LET g == get_bands_settings(Mem, server_id)
            r == info_loop(g.m, g.bands, ItemsOf(g.bands, TagOrder), ok, {})
            e == embeds_of(r.m, g.bands, ItemsOf(g.bands, TagOrder))
        IN  /\ SetMem(r.m)
            /\ bs_cmd' = BsCmd("info", server_id, << >>, "",
                               IF r.exc # "none" THEN r.exc ELSE e.exc,
                               r.fetched, Unnamed(g.m, server_id),
                               IF r.exc # "none" THEN << >> ELSE sorted_by_title(e.embeds))
            /\ UNCHANGED << task, other_vars, race_vars >>

(***************************************************************************)
(* Specifications.                                                         *)
(***************************************************************************)
\* update_data, step by step.  The for of line 335 raises RuntimeError when
\* the dict it walks has changed its size; a server without bands takes no
\* await.  The result is upd as it stands at the next await or at the end.
UpdateDone(size, exc) == [NoUpdate EXCEPT !.pc = "done", !.exc = exc, !.size = size]

RECURSIVE next_server(_, _, _)
next_server(m, sids, size) ==
    IF Cardinality(DOMAIN m.servers) # size THEN UpdateDone(size, "RuntimeError")
    ELSE IF sids = << >> THEN UpdateDone(size, "none")
    ELSE LET g == get_bands_settings(m, Head(sids))
             tags == ItemsOf(g.bands, TagOrder)
         IN  IF tags = << >> THEN next_server(m, Tail(sids), size)
             ELSE [pc |-> "awaiting", exc |-> "none", size |-> size,
                   sids |-> Tail(sids), server_id |-> Head(sids),
                   bands |-> g.bands, tags |-> Tail(tags), tag |-> Head(tags)]

\* lines 333-342: update_data() is called and runs up to its first await
update_data_begin ==
    /\ upd.pc = "idle"
    /\ upd' = next_server(Mem, ItemsOf(servers, ServerOrder),
                          Cardinality(DOMAIN servers))
    /\ meanwhile' = NoNotes
    /\ UNCHANGED << servers, server_dicts, band_dicts, task, bs_cmd, other_vars >>

\* lines 342-344 and on to the next await: the API has answered
update_data_response ==
    /\ upd.pc = "awaiting"
    /\ \E ok \in BOOLEAN :
         LET data == get_band_data(upd.tag, ok)
             m == set_bands_settings(
                      [Mem EXCEPT !.band_dicts[upd.bands[upd.tag]] = dict_update(@, data)],
                      upd.server_id, upd.bands)
         IN  IF data = None
             THEN /\ upd' = UpdateDone(upd.size, "TypeError")
                  /\ UNCHANGED << servers, server_dicts, band_dicts >>
             ELSE /\ SetMem(m)
                  /\ upd' = IF upd.tags # << >>
                            THEN [upd EXCEPT !.tag = Head(upd.tags), !.tags = Tail(upd.tags)]
                            ELSE next_server(m, upd.sids, upd.size)
    /\ UNCHANGED << task, bs_cmd, meanwhile, other_vars >>

\* line 345, or the exception: the call is over
update_data_return ==
    /\ upd.pc = "done"
    /\ upd' = NoUpdate
    /\ meanwhile' = NoNotes
    /\ UNCHANGED << servers, server_dicts, band_dicts, task, bs_cmd, other_vars >>

bs_idle ==
    /\ servers = EmptyDict
    /\ server_dicts = [o \in ServerObjects |-> EmptyDict]
    /\ band_dicts = [b \in BandObjects |-> NewBand]
    /\ task = "pending"
    /\ bs_cmd = NoBsCmd
    /\ upd = NoUpdate
    /\ meanwhile = NoNotes

overlap_idle ==
    /\ calls = [c \in Commands |-> NoFetch]
    /\ writer = None

rerun_idle == prev_said = None

link_idle ==
    /\ players = << >>
    /\ server_members = {}
    /\ _user_list = None
    /\ found = NotLookedUp

Init ==
    /\ config \in FamilyConfigs
    /\ files = [p \in CachePaths |-> None]
    /\ settings = [cache_timestamp |-> None, auth |-> None]
    /\ now = 0
    /\ cmd = Ended("setup", "none", FALSE)
    /\ fmm = NoCall
    /\ said = << >>
    /\ last_good = [p \in CachePaths |-> None]
    /\ server_roles = << >>
    /\ member_models = << >>
    /\ clan_defaults = << >>
    /\ clans_out = << >>
    /\ out = << >>
    /\ idx = 0
    /\ apc = "idle"
    /\ link_idle
    /\ overlap_idle
    /\ rerun_idle
    /\ bs_idle

Next == setup \/ racfauditset_auth \/ racfaudit_search \/ racfaudit_run \/ Tick

Spec == Init /\ [][Next]_vars

\* the member models the audit may be given on a server with these roles
MemberShapes(roles, cfg) ==
    UNION { { [clan_name |-> cfg[i].name, role |-> r, discord_member |-> d] :
                r \in GameRoles,
                d \in { None } \cup
                      { Some([roles |-> held]) :
                          held \in SUBSET ({ "Elder", "Co-Leader", cfg[i].role_name }
                                           \cap RolesOf(roles)) } } :
            i \in 1..Len(cfg) }

\* a list of member models: member i has tag i
MemberList(shape) ==
    [i \in 1..Len(shape) |->
        [tag |-> i, clan_name |-> shape[i].clan_name, role |-> shape[i].role,
         discord_member |-> shape[i].discord_member]]

\* lines 297-301 list the members clan by clan, in the order of the clans
in_clan_order(cfg, shape) ==
    \A i, j \in 1..Len(shape) :
        i < j =>
            (CHOOSE a \in 1..Len(cfg) : cfg[a].name = shape[i].clan_name)
                <= (CHOOSE b \in 1..Len(cfg) : cfg[b].name = shape[j].clan_name)

AuditInit ==
    /\ config = << ClanCfg("AAA"), ClanCfg("BBB") >>
    /\ files = [p \in CachePaths |-> None]
    /\ settings = [cache_timestamp |-> None, auth |-> None]
    /\ now = 0
    /\ cmd = Ended("run", "none", FALSE)
    /\ fmm = NoCall
    /\ said = << >>
    /\ last_good = [p \in CachePaths |-> None]
    /\ server_roles \in ServerRoleChoices
    /\ \E k \in 0..MaxMembers :
         \E shape \in [1..k -> MemberShapes(server_roles, config)] :
            /\ in_clan_order(config, shape)
            /\ member_models = MemberList(shape)
    /\ clan_defaults = << >>
    /\ clans_out = << >>
    /\ out = << >>
    /\ idx = 0
    /\ apc = "start"
    /\ link_idle
    /\ overlap_idle
    /\ rerun_idle
    /\ bs_idle

AuditNext == AuditBegin \/ AuditMember \/ AuditOutput

AuditSpec == AuditInit /\ [][AuditNext]_vars

\* the roster fetch and the audit at rest
fetch_idle ==
    /\ files = [p \in CachePaths |-> None]
    /\ settings = [cache_timestamp |-> None, auth |-> None]
    /\ now = 0
    /\ cmd = Ended("setup", "none", FALSE)
    /\ fmm = NoCall
    /\ said = << >>
    /\ last_good = [p \in CachePaths |-> None]

audit_idle ==
    /\ server_roles = << >>
    /\ member_models = << >>
    /\ clan_defaults = << >>
    /\ clans_out = << >>
    /\ out = << >>
    /\ idx = 0
    /\ apc = "idle"

\* the tables of at most MaxPlayers entries
PlayerTables ==
    UNION { { t \in [1..k -> MemberIds \X PlayerTags] :
                \A i, j \in 1..k : i # j => t[i][1] # t[j][1] } :
            k \in 0..MaxPlayers }

LinkInit ==
    /\ config = << ClanCfg("AAA"), ClanCfg("BBB") >>
    /\ fetch_idle
    /\ audit_idle
    /\ players \in PlayerTables
    /\ server_members \in SUBSET MemberIds
    /\ _user_list = None
    /\ found = NotLookedUp
    /\ overlap_idle
    /\ rerun_idle
    /\ bs_idle

LinkNext == DiscordUsers \/ TagToMember

LinkSpec == LinkInit /\ [][LinkNext]_vars

OverlapInit ==
    /\ config \in FamilyConfigs
    /\ fetch_idle
    /\ audit_idle
    /\ link_idle
    /\ overlap_idle
    /\ rerun_idle
    /\ bs_idle

OverlapNext ==
    \E c \in Commands : fetch_request(c) \/ fetch_response(c) \/ fetch_return(c)

OverlapSpec == OverlapInit /\ [][OverlapNext]_vars

\* the audit run twice, on the server that has no role for Bravo
RerunInit ==
    /\ AuditInit
    /\ server_roles = << "Elder", "Co-Leader", "AlphaRole" >>

RerunNext == AuditBegin \/ AuditMember \/ AuditOutput \/ AuditAgain

RerunSpec == RerunInit /\ [][RerunNext]_vars

\* the band cog after setup on a bot that has no settings.json yet
BSInit ==
    /\ config = << ClanCfg("AAA"), ClanCfg("BBB") >>
    /\ fetch_idle
    /\ audit_idle
    /\ link_idle
    /\ overlap_idle
    /\ rerun_idle
    /\ bs_idle

\* the commands
BSNext ==
    \/ bsdata_setup
    \/ setbsdata_init
    \/ setbsdata_update
    \/ setbsdata_add
    \/ setbsdata_remove
    \/ setbsdata_setkey
    \/ bsdata_info

BSSpec == BSInit /\ [][BSNext]_vars

\* the loop task, and the commands that give it bands to update
LoopNext ==
    \/ bsdata_setup
    \/ loop_task_update
    \/ loop_task_wake
    \/ setbsdata_init
    \/ setbsdata_add

LoopSpec == BSInit /\ [][LoopNext]_vars

\* update_data suspended at its await, and the commands add and remove
RaceNext ==
    \/ update_data_begin
    \/ update_data_response
    \/ update_data_return
    \/ setbsdata_add
    \/ setbsdata_remove

RaceSpec == BSInit /\ [][RaceNext]_vars

(***************************************************************************)
(* Properties of the roster fetch and of the commands (Spec).              *)
(***************************************************************************)
SrcOf(models) == { models[i].src : i \in 1..Len(models) }
TagsOf(clan_models) == [i \in 1..Len(clan_models) |-> to_dict(clan_models[i]).tag]
RosterCommand == cmd.name \in { "search", "run" }

\* C1: what one call of family_member_models returns is all from the API
\* response, with is_cache = False, or all from the cache, with is_cache =
\* True: never a mix, and the flag tells which.
C1_AllLiveOrAllCache ==
    fmm.returned =>
        /\ ~fmm.is_cache => /\ fmm.api_ok
                            /\ SrcOf(fmm.clan_models) \subseteq { "api" }
                            /\ SrcOf(fmm.members) \subseteq { "api" }
        /\ fmm.is_cache => /\ ~fmm.api_ok
                           /\ SrcOf(fmm.clan_models) \subseteq { "cache" }
                           /\ SrcOf(fmm.members) \subseteq { "cache" }

\* a fallback that returned members
C1_Witness ==
    fmm.returned /\ fmm.is_cache /\ ~fmm.api_ok /\ Len(fmm.members) > 0

\* C2: when the API call fails and a requested clan tag has no cache entry,
\* family_member_models does not raise: it returns the records of the tags
\* that are cached (none, if none is), with is_cache = True.
C2_MissingTagOmitted ==
    (fmm.called /\ ~fmm.api_ok /\ fmm.missing # {}) =>
        /\ fmm.returned
        /\ fmm.is_cache
        /\ TagsOf(fmm.clan_models) =
             SelectSeq(clan_tags(config), LAMBDA t : t \notin fmm.missing)

\* C3: in racfaudit search and racfaudit run a failure of the API does not
\* abort the command: the roster is loaded from the cache and the command
\* goes on with it.
C3_ApiFailureFallsBack ==
    (RosterCommand /\ cmd.api_error) =>
        /\ cmd.exc = "none"
        /\ fmm.returned
        /\ fmm.is_cache

\* C9: after a successful fetch that returned record R for clan tag T the
\* cache file of T holds R's content, and a later fallback read of T yields
\* a record with the content of the last R fetched for T.
C9_CacheRoundTrip ==
    /\ (fmm.returned /\ ~fmm.is_cache) =>
          \A i \in 1..Len(config) :
              files[cache_file_path(config[i].tag)] = Some(to_dict(fmm.clan_models[i]))
    /\ (fmm.returned /\ fmm.is_cache) =>
          \A i \in 1..Len(config) :
              /\ last_good[cache_file_path(config[i].tag)] # None
              /\ to_dict(fmm.clan_models[i]) = last_good[cache_file_path(config[i].tag)][1]
    /\ \A p \in CachePaths : files[p] = last_good[p]

\* a fallback read of two clans, one of them with members
C9_Witness ==
    /\ fmm.returned /\ fmm.is_cache
    /\ Len(fmm.clan_models) = 2
    /\ Len(fmm.members) > 0

\* C10: the cache files and the cache_timestamp setting change only in a
\* step whose API call succeeded; a step whose API call failed, fallback
\* read included, leaves them as they were.
C10_CacheOnlyOnSuccess ==
    [][ /\ (files' # files \/ settings'.cache_timestamp # settings.cache_timestamp)
            => (fmm'.called /\ fmm'.api_ok)
        /\ (cmd' # cmd /\ cmd'.api_error)
            => (files' = files /\ settings'.cache_timestamp = settings.cache_timestamp)
      ]_vars

\* a fallback read of a cache that an earlier fetch filled
C10_Witness ==
    /\ fmm.called /\ ~fmm.api_ok /\ fmm.returned
    /\ settings.cache_timestamp # None
    /\ \E p \in CachePaths : files[p] # None

\* a roster command whose fetch met an API failure and went to the cache
FellBack == RosterCommand /\ fmm.called /\ ~fmm.api_ok

\* C11: when a roster command falls back to the cache and no cache timestamp
\* was ever recorded, it ends without an exception having said the abort
\* message and nothing else; when a timestamp exists it says that the results
\* are stale and goes on with the cached records.
C11_FallbackReport ==
    FellBack =>
        /\ cmd.exc = "none"
        /\ settings.cache_timestamp = None =>
               said = << "Cannot reach API and cannot load from cache. Aborting" >>
        /\ settings.cache_timestamp # None =>
               /\ fmm.returned
               /\ fmm.is_cache
               /\ said # << >>
               /\ said[1] = "Cannot load from API. Results are from cache"

(***************************************************************************)
(* Properties of the member processing (AuditSpec).                        *)
(***************************************************************************)
Reporting == apc \in { "loop", "done" }

\* the members the loop has been through
Processed == { member_models[i] : i \in 1..idx }

\* the list stored under a clan's entry of clans_out for a category
ListOf(clan_name, field) ==
    clan_defaults[clans_out[RefOf(clans_out, clan_name)].ref][field]

RecordedUnder(m, field) == InSeq(m.tag, ListOf(m.clan_name, field))

ClanNames == { config[i].name : i \in 1..Len(config) }

\* the chat roles a member's chat identity holds
Held(m) == m.discord_member[1].roles

\* the role name family_config gives the member's clan, and whether the
\* server has a role of that name
RoleNameOf(clan_name) ==
    config[CHOOSE i \in 1..Len(config) : config[i].name = clan_name].role_name

HasClanRoleOnServer(m) == RoleNameOf(m.clan_name) \in RolesOf(server_roles)

\* C4: a member with no chat identity is recorded under no_discord and under
\* none of elder_promotion_req, coleader_promotion_req, no_clan_role, in no
\* clan's entry; a member with a chat identity is never under no_discord.
C4_NoDiscordOnly ==
    Reporting =>
        \A m \in Processed :
            /\ ~has_discord(m) =>
                  /\ RecordedUnder(m, "no_discord")
                  /\ \A c \in ClanNames :
                        \A f \in Fields \ { "no_discord" } : ~InSeq(m.tag, ListOf(c, f))
            /\ has_discord(m) =>
                  \A c \in ClanNames : ~InSeq(m.tag, ListOf(c, "no_discord"))

\* the report is complete and holds a member without and one with a chat identity
C4_Witness ==
    /\ apc = "done"
    /\ \E m \in Processed : ~has_discord(m)
    /\ \E m \in Processed : has_discord(m) /\ Held(m) # {}

\* C5: the lists stored under a clan's entry hold members of that clan only.
C5_PerClanLists ==
    Reporting =>
        \A c \in ClanNames : \A f \in Fields : \A m \in Processed :
            InSeq(m.tag, ListOf(c, f)) => m.clan_name = c

\* C6: a member with a chat identity is under elder_promotion_req exactly
\* when it is not elder in game and its chat identity holds "Elder"; an elder
\* in game holding "Elder" is not under it.
C6_ElderPromotion ==
    Reporting =>
        \A m \in Processed :
            has_discord(m) =>
                /\ RecordedUnder(m, "elder_promotion_req")
                      <=> (m.role # "elder" /\ "Elder" \in Held(m))
                /\ (m.role = "elder" /\ "Elder" \in Held(m))
                      => \A c \in ClanNames : ~InSeq(m.tag, ListOf(c, "elder_promotion_req"))

\* an elder holding "Elder" and a co-leader holding "Elder" have been processed
C6_Witness ==
    /\ apc = "done"
    /\ \E m \in Processed : has_discord(m) /\ m.role = "elder" /\ "Elder" \in Held(m)
    /\ \E m \in Processed : has_discord(m) /\ m.role = "coLeader" /\ "Elder" \in Held(m)

\* C7: a member with a chat identity is under no_clan_role exactly when the
\* server has the role family_config names for its clan and the chat
\* identity does not hold it; with no such role on the server it is not.
C7_NoClanRole ==
    Reporting =>
        \A m \in Processed :
            has_discord(m) =>
                /\ RecordedUnder(m, "no_clan_role")
                      <=> (HasClanRoleOnServer(m) /\ RoleNameOf(m.clan_name) \notin Held(m))
                /\ ~HasClanRoleOnServer(m)
                      => \A c \in ClanNames : ~InSeq(m.tag, ListOf(c, "no_clan_role"))

\* a member whose clan has no role on the server, and one that lacks the
\* role its clan has
C7_Witness ==
    /\ apc = "done"
    /\ \E m \in Processed : has_discord(m) /\ ~HasClanRoleOnServer(m)
    /\ \E m \in Processed :
          has_discord(m) /\ HasClanRoleOnServer(m) /\ RoleNameOf(m.clan_name) \notin Held(m)

\* the condition of each category, for a member with a chat identity
Meets(m, field) ==
    CASE field = "elder_promotion_req" -> m.role # "elder" /\ "Elder" \in Held(m)
      [] field = "coleader_promotion_req" -> m.role # "coLeader" /\ "Co-Leader" \in Held(m)
      [] field = "no_clan_role" ->
            HasClanRoleOnServer(m) /\ RoleNameOf(m.clan_name) \notin Held(m)
      [] field = "no_discord" -> FALSE

\* the member of the scenario: member in game, "Elder" its only chat role,
\* in a clan whose role the server has
ElderOnly(m) ==
    /\ has_discord(m)
    /\ m.role = "member"
    /\ Held(m) = { "Elder" }
    /\ HasClanRoleOnServer(m)

\* C8: the checks are independent: a member with a chat identity is in every
\* category whose condition it meets and in no other; a member in game whose
\* chat identity holds "Elder", not "Co-Leader", and lacks its clan's role is
\* under elder_promotion_req and no_clan_role, not under no_discord or
\* coleader_promotion_req.
C8_IndependentChecks ==
    Reporting =>
        \A m \in Processed :
            /\ has_discord(m) => \A f \in Fields : RecordedUnder(m, f) <=> Meets(m, f)
            /\ ElderOnly(m) =>
                  /\ RecordedUnder(m, "elder_promotion_req")
                  /\ RecordedUnder(m, "no_clan_role")
                  /\ ~RecordedUnder(m, "no_discord")
                  /\ ~RecordedUnder(m, "coleader_promotion_req")

\* the member of the scenario has been processed, and one meeting all three
C8_Witness ==
    /\ apc = "done"
    /\ \E m \in Processed : ElderOnly(m)
    /\ \E m \in Processed :
          has_discord(m) /\ \A f \in Fields \ { "no_discord" } : Meets(m, f)

\* a list of tags in which every tag comes before the greater ones: member
\* i of the list the audit walks has tag i
InVisitingOrder(l) == \A i, j \in 1..Len(l) : i < j => l[i] < l[j]

\* C14: in every list of the report, the line based output included, the
\* members stand in the order in which the audit visited them, which is the
\* order of the member list: clan by clan, and within a clan as fetched.
C14_VisitingOrder ==
    Reporting =>
        /\ \A c \in ClanNames : \A f \in Fields : InVisitingOrder(ListOf(c, f))
        /\ InVisitingOrder([i \in 1..Len(out) |-> out[i].ign])

\* a finished report with a list of two members
C14_Witness ==
    /\ apc = "done"
    /\ \E c \in ClanNames : \E f \in Fields : Len(ListOf(c, f)) >= 2

(***************************************************************************)
(* Properties of the audit run twice (RerunSpec).                          *)
(***************************************************************************)
\* C15: the report is built anew by every audit: the second audit of the
\* same server and the same members sends what the first one sent.
C15_SameReportAgain ==
    (apc = "done" /\ prev_said # None) => said = prev_said[1]

\* a second audit that has reported a member
C15_Witness ==
    /\ apc = "done"
    /\ prev_said # None
    /\ out # << >>
    /\ \E c \in ClanNames : \E f \in Fields : ListOf(c, f) # << >>

(***************************************************************************)
(* Properties of the lookup of a chat member by tag (LinkSpec).            *)
(***************************************************************************)
\* the entries of the table that link the tag to a user who is on the server
LinksOf(tag) ==
    { i \in 1..Len(players) : players[i][2] = tag /\ players[i][1] \in server_members }

\* C12: tag_to_member returns the user of the first entry, in table order,
\* that links the tag to a user present on the server, also when several
\* entries link the tag; it returns None when no entry does.
C12_FirstAssociation ==
    found.called =>
        IF LinksOf(found.tag) = {} THEN found.user = None
        ELSE LET first == CHOOSE i \in LinksOf(found.tag) :
                              \A j \in LinksOf(found.tag) : i <= j
             IN  found.user = Some([id |-> players[first][1]])

\* a tag looked up that two users on the server are linked to
C12_Witness ==
    /\ found.called
    /\ Cardinality(LinksOf(found.tag)) >= 2
    /\ found.user # None

(***************************************************************************)
(* Properties of two roster fetches at once (OverlapSpec).                 *)
(***************************************************************************)
\* the record that fetch c saved for clan tag t
WrittenBy(c, t) == ClanDict(t, calls[c].wrote[1][t])

BothSaved == \A c \in Commands : calls[c].pc = "done" /\ calls[c].api_ok

\* C13: when roster fetches overlap, the cache never holds a mix of their
\* batches nor a part of a record: the file of every clan tag holds, in
\* full, the record of the batch that was saved last, and after two
\* successful fetches the files are the batch of one of the two.
C13_LastWriterWins ==
    /\ writer # None =>
          \A i \in 1..Len(config) :
              files[cache_file_path(config[i].tag)] =
                  Some(ClanDict(config[i].tag, writer[1][config[i].tag]))
    /\ BothSaved =>
          \E c \in Commands :
              \A i \in 1..Len(config) :
                  files[cache_file_path(config[i].tag)] =
                      Some(WrittenBy(c, config[i].tag))

\* two fetches of two clans that were suspended together, both answered,
\* with different rosters for both clans
C13_Witness ==
    /\ Len(config) = 2
    /\ BothSaved
    /\ \A c \in Commands : calls[c].overlapped
    /\ \A t \in ClanTags : WrittenBy("c1", t) # WrittenBy("c2", t)

(***************************************************************************)
(* Properties of the band data cog (BSSpec, LoopSpec).                     *)
(***************************************************************************)
\* the clan tags tracked for a server
Tracked(server_id) ==
    IF server_id \in DOMAIN servers THEN DOMAIN server_dicts[servers[server_id]] ELSE {}

\* the band of a tracked clan tag of a server
Record(server_id, tag) == band_dicts[server_dicts[servers[server_id]][tag]]

\* the bands of a server: clan tag -> band
BandMap(server_id) == [t \in Tracked(server_id) |-> Record(server_id, t)]

\* C16: after setbsdata remove none of the listed clan tags, the leading #
\* stripped, is tracked for the server, whatever the position of a tag in
\* the list and whether or not the other listed tags were tracked.
C16_ListedTagsRemoved ==
    bs_cmd.name = "remove" =>
        \A i \in 1..Len(bs_cmd.clantags) :
            strip_hash(bs_cmd.clantags[i]) \notin Tracked(bs_cmd.server)

\* C17: while the cog is loaded the loop goes on: when the loop task has
\* run update_data and slept, a new loop task is scheduled.
C17_LoopRescheduled ==
    [][(task = "sleeping" /\ task' # "sleeping") => task' = "pending"]_vars

\* C18: bsdata info asks the API for the data of every tracked band of the
\* server that has no name yet, under the band's own clan tag, before it
\* builds the embeds, and every embed it shows has a fetched name.
C18_InfoFetchesUnnamed ==
    bs_cmd.name = "info" =>
        /\ bs_cmd.unnamed \subseteq bs_cmd.fetched
        /\ \A i \in 1..Len(bs_cmd.embeds) : bs_cmd.embeds[i].title # None
        /\ bs_cmd.exc \in { "none", "TypeError" }

\* C19: init, add, remove and setkey on one server leave the bands of every
\* other server as they were.
C19_OtherServersUntouched ==
    [][bs_cmd'.name \in { "init", "add", "remove", "setkey" } =>
          \A o \in ServerIds \ { bs_cmd'.server } : BandMap(o)' = BandMap(o)]_vars

\* C20: every tracked band has a record of its own: setkey changes the
\* record of its tag only, after a pass of update_data every band holds the
\* data fetched for its own tag, and neither changes the dict BAND_DEFAULTS.
C20_OwnRecordPerTag ==
    [][/\ bs_cmd'.name \in { "setkey", "update" } =>
            band_dicts'[BAND_DEFAULTS] = band_dicts[BAND_DEFAULTS]
       /\ bs_cmd'.name = "setkey" =>
            \A o \in ServerIds :
                \A t \in (Tracked(o) \cap Tracked(o)') \ { bs_cmd'.tag } :
                    Record(o, t)' = Record(o, t)
       /\ (bs_cmd'.name = "update" /\ bs_cmd'.exc = "none") =>
            \A o \in ServerIds :
                \A t \in Tracked(o)' : Record(o, t)'.name = Some(BandName(t))]_vars

(***************************************************************************)
(* Properties of update_data and the commands that run while it waits      *)
(* (RaceSpec).                                                             *)
(***************************************************************************)
\* C21: a setbsdata add or remove that completes while update_data waits for
\* an API response of the same server is not lost: when update_data has
\* finished, a tag added in the meantime is tracked for the server and a tag
\* removed in the meantime is not.
C21_NoLostUpdate ==
    upd.pc = "done" =>
        \A o \in ServerIds :
            \A t \in BandTags :
                /\ meanwhile[o][t] = "added" => t \in Tracked(o)
                /\ meanwhile[o][t] = "removed" => t \notin Tracked(o)

====
